---- MODULE Spec2Model ----
(***************************************************************************)
(* Model of pizza: the `update` command of the CLI (src/pizza/cli/         *)
(* __main__.py), the cache commands, and the server-side record            *)
(* construction grab_musicbrainz (src/pizza/app.py).                       *)
(*                                                                         *)
(* Conventions.  A Python value that may be None is a sequence of length   *)
(* 0 (None) or 1 (the value).  Text that the code takes apart or converts  *)
(* (TRACK, DATE, YEAR, raw MusicBrainz positions) is a sequence of         *)
(* one-character strings; every other text is an opaque string compared    *)
(* by equality.  A tag set is a function from the tag names present to     *)
(* the list of values of each name, as mutagen presents it.                *)
(***************************************************************************)
EXTENDS Integers, Sequences, FiniteSets, TLC

VARIABLES
    disk,          \* file -> [kind, tags]: what is stored in the directory
    cache,         \* cache.cache: <<artist, album>> -> response
    pc,            \* position of the update command
    opts,          \* [force, lyrics, bpm] of the running update command
    import_list,   \* import_list of update
    gi,            \* index in import_list of the group being handled
    cands,         \* the sorted tracks of the group being matched
    ci,            \* index in cands of the candidate being handled
    response,      \* response["data"] of the group being handled (optional)
    match,         \* the matched track record (optional)
    mem,           \* the in-memory FLAC object `metadata` of line 150
    lyr,           \* what lrclib.get returned for the file being written
    snapshot,      \* history: disk as it was when the command started
    outcome,       \* history: file -> what the running command did with it
    lastLookup,    \* history: the last cache lookup of the running command
    streak,        \* history: the run of lookups of one key that got no record
    fetches,       \* history: key -> records fetched since the last clear
    runs,          \* number of update commands started
    mbsearch,      \* server: search_releases' "release-list"
    mbdata         \* server: the "data" of the /api/find answer

vars == <<disk, cache, pc, opts, import_list, gi, cands, ci, response, match,
          mem, lyr, snapshot, outcome, lastLookup, streak, fetches, runs,
          mbsearch, mbdata>>

lookups == <<lastLookup, streak, fetches>>

server == <<mbsearch, mbdata>>

cliVars == <<disk, cache, pc, opts, import_list, gi, cands, ci, response,
             match, mem, lyr, snapshot, outcome, lastLookup, streak, fetches,
             runs>>

\* ---------------------------------------------------------------- bounds
MaxRuns == 2          \* update commands in one behaviour
MaxDiscs == 3         \* media of a release (server model)
MaxTrackCount == 10   \* tracks of a medium (server model)

\* ------------------------------------------------------- Python built-ins
None == <<>>
Some(v) == <<v>>
IsNone(o) == o = <<>>
Val(o) == o[1]

Digits == <<"0", "1", "2", "3", "4", "5", "6", "7", "8", "9">>

IsDigit(c) == \E d \in 1..10 : Digits[d] = c
DigitVal(c) == (CHOOSE d \in 1..10 : Digits[d] = c) - 1

\* int(s) raises ValueError unless s is a string of decimal digits (of the
\* texts of this model, which hold no sign, blank or underscore).
IntOk(s) == Len(s) > 0 /\ \A i \in 1..Len(s) : IsDigit(s[i])

RECURSIVE IntOf(_)
IntOf(s) ==
    IF Len(s) = 0 THEN 0
    ELSE 10 * IntOf(SubSeq(s, 1, Len(s) - 1)) + DigitVal(s[Len(s)])

\* str(n) for n >= 0.
RECURSIVE StrOf(_)
StrOf(n) ==
    IF n < 10 THEN <<Digits[n + 1]>>
    ELSE StrOf(n \div 10) \o <<Digits[(n % 10) + 1]>>

\* s.split("-")[0]
RECURSIVE SplitFirst(_)
SplitFirst(s) ==
    IF Len(s) = 0 \/ s[1] = "-" THEN <<>>
    ELSE <<s[1]>> \o SplitFirst(Tail(s))

\* Python truthiness of an optional text: None and the empty text are false.
TruthyStr(o) == ~IsNone(o) /\ Val(o) # ""
TruthySeq(o) == ~IsNone(o) /\ Val(o) # <<>>

\* a or b
PyOrStr(a, b) == IF TruthyStr(a) THEN a ELSE b

\* round(whole + tenths/10): Python rounds a tie to the even neighbour.
PyRound(whole, tenths) ==
    IF tenths > 5 \/ (tenths = 5 /\ whole % 2 = 1) THEN whole + 1 ELSE whole

\* mapping.get(key, default) of a mapping whose values are optional
DictGet(d, k, default) == IF k \in DOMAIN d THEN d[k] ELSE default

\* mapping[key] = value
Put(d, k, v) == [x \in DOMAIN d \cup {k} |-> IF x = k THEN v ELSE d[x]]

EmptyMap == [x \in {} |-> <<>>]

\* ----------------------------------------------------- server: app.py
\* [artist["artist"]["name"] for artist in credit if isinstance(artist, dict)]
RECURSIVE CreditNames(_)
CreditNames(credit) ==
    IF credit = <<>> THEN <<>>
    ELSE (IF credit[1].dict THEN <<credit[1].artist.name>> ELSE <<>>)
         \o CreditNames(Tail(credit))

\* Python list index: a negative index counts from the end.
PyIndex(list, i) == IF i < 0 THEN list[Len(list) + i + 1] ELSE list[i + 1]

\* variant: the track count of medium index - 1 is added for every medium
WrappedPosition(media, index, track) ==
    IntOf(track.position) + PyIndex(media, index - 1).track_count

\* line 45, index being enumerate's 0-based medium index
TrackPosition(media, index, track) ==
    IF index > 0
    THEN IntOf(track.position) + PyIndex(media, index - 1).track_count
    ELSE IntOf(track.position)

TrackEntry(media, index, track) ==
    [disc     |-> index + 1,
     artist   |-> CreditNames(track.recording.artist_credit),
     title    |-> track.recording.title,
     position |-> TrackPosition(media, index, track)]

RECURSIVE MediumTracks(_, _, _)
MediumTracks(media, index, k) ==
    IF k > Len(PyIndex(media, index).track_list) THEN <<>>
    ELSE <<TrackEntry(media, index, PyIndex(media, index).track_list[k])>>
         \o MediumTracks(media, index, k + 1)

RECURSIVE AllTracks(_, _)
AllTracks(media, index) ==
    IF index >= Len(media) THEN <<>>
    ELSE MediumTracks(media, index, 1) \o AllTracks(media, index + 1)

grab_musicbrainz(data) ==
    [ids    |-> [album |-> data.id, artist |-> data.artist_credit[1].artist.id],
     artist |-> CreditNames(data.artist_credit),
     date   |-> data.date,
     album  |-> data.title,
     tracks |-> AllTracks(data.medium_list, 0)]

\* search_musicbrainz, given what search_releases found
search_musicbrainz(release_list) ==
    IF release_list # <<>> THEN Some(grab_musicbrainz(release_list[1])) ELSE None

\* ------------------------------------------------- MusicBrainz releases
Dict(id, name) == [dict |-> TRUE, artist |-> [id |-> id, name |-> name]]
Phrase(text) == [dict |-> FALSE, phrase |-> text]

Track(k, title, credit) ==
    [position |-> StrOf(k), recording |-> [title |-> title, artist_credit |-> credit]]

Medium(titles, credit) ==
    [track_count |-> Len(titles),
     track_list  |-> [k \in 1..Len(titles) |-> Track(k, titles[k], credit)]]

\* The releases the server model is run on: every way of spreading tracks
\* over 1..MaxDiscs media of 1..MaxTrackCount tracks each.
Release(counts) ==
    [id            |-> "mb-0",
     artist_credit |-> <<Dict("ar-X", "X")>>,
     date          |-> None,
     title         |-> "Y",
     medium_list   |-> [i \in 1..Len(counts) |->
                           Medium([k \in 1..counts[i] |-> "T"], <<Dict("ar-X", "X")>>)]]

TrackCounts == UNION {[1..d -> 1..MaxTrackCount] : d \in 1..MaxDiscs}

\* The releases the remote resolver answers the CLI with.
Release1 ==
    [id            |-> "mb-1",
     artist_credit |-> <<Dict("ar-X", "X")>>,
     date          |-> Some(<<"2", "0", "2", "4", "-", "0", "5", "-", "0", "1">>),
     title         |-> "Y",
     medium_list   |-> <<Medium(<<"A", "B">>, <<Dict("ar-X", "X")>>)>>]

Release2 ==
    [id            |-> "mb-2",
     artist_credit |-> <<Dict("ar-Z", "Z"), Phrase(" & "), Dict("ar-X", "X")>>,
     date          |-> None,
     title         |-> "W",
     medium_list   |-> <<Medium(<<"B">>, <<Dict("ar-Z", "Z")>>),
                         Medium(<<"A">>, <<Dict("ar-X", "X")>>)>>]

ServedReleases == {Release1, Release2}

\* ------------------------------------------------ the directory's files
Version == "__version__"

One(c) == <<<<c>>>>

Flac(tags) == [kind |-> "flac", tags |-> tags]

\* What the files of the directory may hold when the first command starts.
Plain ==
    Flac([ARTIST |-> <<"X">>, ALBUM |-> <<"Y">>, TITLE |-> <<"A">>,
          TRACK |-> One("1"), COMMENT |-> <<"old">>])

OtherArtist ==
    Flac([ALBUMARTIST |-> <<"Z">>, ARTIST |-> <<"X">>, ALBUM |-> <<"Y">>,
          TITLE |-> <<"B">>, TRACK |-> One("1")])

OtherAlbum == Flac([ARTIST |-> <<"X">>, ALBUM |-> <<"W">>, TRACK |-> One("2")])

TitleOnly == Flac([ARTIST |-> <<"X">>, ALBUM |-> <<"Y">>, TITLE |-> <<"B">>])

TrackOfTotal ==
    Flac([ARTIST |-> <<"X">>, ALBUM |-> <<"Y">>, TITLE |-> <<"A">>,
          TRACK |-> <<<<"1", "/", "2">>>>])

NoTitleNoTrack ==
    Flac([ARTIST |-> <<"X">>, ALBUM |-> <<"Y">>, LYRICS |-> <<"old">>,
          BPM |-> One("9")])

EmptyTitle == Flac([ARTIST |-> <<"X">>, ALBUM |-> <<"Y">>, TITLE |-> <<"">>])

Unknown ==
    Flac([ARTIST |-> <<"X">>, ALBUM |-> <<"Y">>, TITLE |-> <<"Q">>,
          TRACK |-> One("9")])

Processed ==
    Flac([PIZZA |-> <<Version>>, ALBUMARTIST |-> <<"X">>, ALBUM |-> <<"Y">>,
          TITLE |-> <<"B">>, TRACK |-> One("2"), LYRICS |-> <<"old">>,
          BPM |-> One("9")])

NoAlbum == Flac([ARTIST |-> <<"X">>, TITLE |-> <<"A">>])

NoArtist == Flac([ALBUM |-> <<"Y">>, TITLE |-> <<"A">>])

Corrupt == [kind |-> "corrupt", tags |-> EmptyMap]

NotFlac == [kind |-> "other", tags |-> EmptyMap]

\* The directories update is run on, each in the order rglob visits it.
Directories ==
    { <<Plain, OtherArtist>>,
      <<OtherAlbum, Plain>>,
      <<TrackOfTotal, OtherAlbum>>,
      <<Unknown, NoTitleNoTrack, Plain>>,
      <<Processed, Plain>>,
      <<TitleOnly, EmptyTitle>>,
      <<Corrupt, NotFlac, NoAlbum, NoArtist, OtherAlbum>> }

Files == DOMAIN disk

\* ------------------------------------------- update: the directory scan
\* variant: the marker is not looked at
RunsOnProcessed(tags, force) == FALSE

\* line 75
SkipProcessed(tags, force) == "PIZZA" \in DOMAIN tags /\ ~force

\* metadata.get(name): the list of values, or None
TagGet(tags, name) == IF name \in DOMAIN tags THEN Some(tags[name]) ELSE None

\* metadata.get(name, [None])[0]
TagFirst(tags, name) == IF name \in DOMAIN tags THEN Some(tags[name][1]) ELSE None

\* line 79
TagArtist(tags) ==
    IF "ALBUMARTIST" \in DOMAIN tags THEN Some(tags["ALBUMARTIST"])
    ELSE TagGet(tags, "ARTIST")

\* line 92: the first group of the list with this album, 0 when there is none
ExistingAlbum(list, artist, album) ==
    IF \E i \in 1..Len(list) : list[i].album = album
    THEN CHOOSE i \in 1..Len(list) :
             /\ list[i].album = album
             /\ \A j \in 1..(i - 1) : list[j].album # album
    ELSE 0

TrackTuple(tags, file) ==
    [title |-> TagFirst(tags, "TITLE"), position |-> TagFirst(tags, "TRACK"),
     file |-> file]

\* lines 93-105
AddTrack(list, artist, album, tags, file) ==
    LET found == ExistingAlbum(list, artist, album)
        grown == IF found = 0
                 THEN Append(list, [album |-> album, artist |-> artist, tracks |-> <<>>])
                 ELSE list
        at    == IF found = 0 THEN Len(grown) ELSE found
    IN  [grown EXCEPT ![at].tracks = Append(@, TrackTuple(tags, file))]

\* lines 69-109: the body of the scan loop for one file
ScanFile(list, file, d, force) ==
    IF d.kind = "other" THEN list
    ELSE IF d.kind = "corrupt" THEN list
    ELSE IF SkipProcessed(d.tags, force) THEN list
    ELSE IF IsNone(TagArtist(d.tags)) THEN list
    ELSE IF IsNone(TagGet(d.tags, "ALBUM")) THEN list
    ELSE AddTrack(list, Val(TagArtist(d.tags))[1], Val(TagGet(d.tags, "ALBUM"))[1],
                  d.tags, file)

\* lines 67-109: rglob visits the files in the order 1..Len(dsk)
RECURSIVE ScanFrom(_, _, _, _)
ScanFrom(list, file, dsk, force) ==
    IF file > Len(dsk) THEN list
    ELSE ScanFrom(ScanFile(list, file, dsk[file], force), file + 1, dsk, force)

\* ----------------------------------------------------- the cache module
\* cache.find_response(artist, album): the stored response, or None
find_response(c, artist, album) ==
    IF <<artist, album>> \in DOMAIN c THEN Some(c[<<artist, album>>]) ELSE None

\* cache.set_response(artist, album, response)
set_response(c, artist, album, resp) == Put(c, <<artist, album>>, resp)

\* ------------------------------------------ update: resolving one group
\* route_api_find's JSON body for what search_releases found
ApiFind(release_list) == [code |-> 200, data |-> search_musicbrainz(release_list)]

RemoteAnswers == {ApiFind(rl) : rl \in {<<>>} \cup {<<r>> : r \in ServedReleases}}

\* variant: the server is asked whatever the cache holds
AlwaysRemote(cached) == TRUE

\* line 119
NeedsRemote(cached) == IsNone(cached)

\* variant: every answer is stored
StoreAny(c, artist, album, answer) == set_response(c, artist, album, answer)

\* lines 125-126
StoreFetched(c, artist, album, answer) ==
    IF ~IsNone(answer.data) THEN set_response(c, artist, album, answer) ELSE c

\* line 112: the loop's step to the group after group number g of n
NextGroup(n, g) ==
    IF g < n THEN [pc |-> "resolve", gi |-> g + 1] ELSE [pc |-> "done", gi |-> g + 1]

\* variant: return instead of continue
StopRun(n, g) == [pc |-> "done", gi |-> g]

\* lines 130 and 135: continue
SkipGroup(n, g) == NextGroup(n, g)

\* line 138: the key of sorted()
SortKeyOk(t) == IF IsNone(t.position) THEN TRUE ELSE IntOk(Val(t.position))
SortKey(t) == IF ~IsNone(t.position) THEN IntOf(Val(t.position)) ELSE 0

\* sorted() is stable: a track goes behind every track whose key is not larger
InsertByKey(sorted, t) ==
    LET before == Cardinality({i \in 1..Len(sorted) : SortKey(sorted[i]) <= SortKey(t)})
    IN  SubSeq(sorted, 1, before) \o <<t>> \o SubSeq(sorted, before + 1, Len(sorted))

RECURSIVE SortedTracks(_, _)
SortedTracks(tracks, k) ==
    IF k = 0 THEN <<>> ELSE InsertByKey(SortedTracks(tracks, k - 1), tracks[k])

\* ------------------------------------------- update: matching one file
\* line 145: the predicate of the filter
Satisfies(x, title, position) ==
    Some(x.title) = title \/ Some(StrOf(x.position)) = position

\* variant: the last satisfying record
LastMatch(tracks, title, position) ==
    IF \E i \in 1..Len(tracks) : Satisfies(tracks[i], title, position)
    THEN CHOOSE i \in 1..Len(tracks) :
             /\ Satisfies(tracks[i], title, position)
             /\ \A j \in (i + 1)..Len(tracks) : ~Satisfies(tracks[j], title, position)
    ELSE 0

\* line 145: next(filter(...), None), as the index of the record, 0 for None
FirstMatch(tracks, title, position) ==
    IF \E i \in 1..Len(tracks) : Satisfies(tracks[i], title, position)
    THEN CHOOSE i \in 1..Len(tracks) :
             /\ Satisfies(tracks[i], title, position)
             /\ \A j \in 1..(i - 1) : ~Satisfies(tracks[j], title, position)
    ELSE 0

\* line 141
HasData(title, position) == TruthyStr(title) \/ TruthySeq(position)

\* --------------------------------------------- update: the tags written
\* lines 19-28: field_index applied to the record r and the matched track m
FixedFields(r, m) ==
    [DISC                      |-> <<StrOf(m.disc)>>,
     ALBUM                     |-> <<r.album>>,
     TRACK                     |-> <<StrOf(m.position)>>,
     TITLE                     |-> <<m.title>>,
     ARTIST                    |-> m.artist,
     ALBUMARTIST               |-> r.artist,
     MUSICBRAINZ_ALBUMID       |-> <<r.ids.album>>,
     MUSICBRAINZ_ALBUMARTISTID |-> <<r.ids.artist>>]

\* variant: the old tags are kept
KeptTags(tags) == tags

\* line 151: metadata.clear()
ClearedTags(tags) == EmptyMap

\* lines 157-159
WithDate(tags, r) ==
    IF ~IsNone(r.date)
    THEN Put(Put(tags, "YEAR", <<SplitFirst(Val(r.date))>>), "DATE", <<Val(r.date)>>)
    ELSE tags

\* lines 150-159
Assembled(old, r, m) == WithDate(FixedFields(r, m) @@ ClearedTags(old), r)

\* line 165
FinalLyrics(result) ==
    PyOrStr(DictGet(result, "syncedLyrics", DictGet(result, "plainLyrics", None)),
            DictGet(result, "plainLyrics", None))

\* lines 164-167
WithLyrics(tags, result) ==
    IF ~IsNone(result) /\ ~IsNone(FinalLyrics(Val(result)))
    THEN Put(tags, "LYRICS", <<Val(FinalLyrics(Val(result)))>>)
    ELSE tags

\* line 178, the bpm program having printed whole.tenths
WithBpm(tags, out) == Put(tags, "BPM", <<StrOf(PyRound(out.whole, out.tenths))>>)

\* line 181
WithMarker(tags) == Put(tags, "PIZZA", <<Version>>)

\* variant: every stage saves
StoreAlways(stage, dsk, file, tags) == [dsk EXCEPT ![file].tags = tags]

\* line 182 is the only metadata.save(): what the directory holds after the
\* stage of the file's handling that has just run
StoreAt(stage, dsk, file, tags) ==
    IF stage = "save" THEN [dsk EXCEPT ![file].tags = tags] ELSE dsk

\* lines 162, 170: the stage that follows in the handling of a file
StageAfter(stage, o) ==
    IF stage = "open" /\ o.lyrics THEN "lyrics"
    ELSE IF stage \in {"open", "lyrics"} /\ o.bpm THEN "bpm"
    ELSE "save"

\* what lrclib.get may return
LyricsAnswers ==
    { None,
      Some([syncedLyrics |-> Some("S"), plainLyrics |-> Some("P")]),
      Some([syncedLyrics |-> None, plainLyrics |-> Some("P")]),
      Some([syncedLyrics |-> Some(""), plainLyrics |-> Some("P")]),
      Some([syncedLyrics |-> Some(""), plainLyrics |-> None]),
      Some(EmptyMap) }

\* what the bpm program may print
BpmOutputs == {[whole |-> 127, tenths |-> 5]}

\* ------------------------------------------------------------ the state
Unseen == [st |-> "unseen", idx |-> 0]

\* History of a lookup: its key, whether the cache held the key, whether the
\* server was asked, what came of it ("hit", "record", "none" or "fail") and
\* the response["data"] it ended with.
Lookup(g, wasHit, calledRemote, got, data) ==
    [key |-> <<g.artist, g.album>>, hit |-> wasHit, remote |-> calledRemote,
     got |-> got, data |-> data]

NoLookup ==
    [key |-> <<"", "">>, hit |-> FALSE, remote |-> FALSE, got |-> "no",
     data |-> None]

\* History of the lookups that got no record: n counts the lookups of one key
\* in a row that ended "none" or "fail" (2 standing for 2 or more), calls
\* those of them that asked the server.
NoStreak == [key |-> <<"", "">>, n |-> 0, calls |-> 0]

Bump(k) == IF k < 2 THEN k + 1 ELSE 2

StreakAfter(s, look) ==
    IF look.got \notin {"none", "fail"} THEN NoStreak
    ELSE IF s.key = look.key
         THEN [key |-> s.key, n |-> Bump(s.n),
               calls |-> IF look.remote THEN Bump(s.calls) ELSE s.calls]
         ELSE [key |-> look.key, n |-> 1, calls |-> IF look.remote THEN 1 ELSE 0]

FetchesAfter(f, look) ==
    IF look.got = "record"
    THEN Put(f, look.key,
             (IF look.key \in DOMAIN f THEN f[look.key] ELSE <<>>) \o look.data)
    ELSE f

Recorded(look) ==
    /\ lastLookup' = look
    /\ streak' = StreakAfter(streak, look)
    /\ fetches' = FetchesAfter(fetches, look)

NoOpts == [force |-> FALSE, lyrics |-> FALSE, bpm |-> FALSE]

Options == [force : BOOLEAN, lyrics : BOOLEAN, bpm : BOOLEAN]

\* no update command is running
AtPrompt == pc \in {"idle", "done", "crashed", "nopath"}

InitCli(d) ==
    /\ disk = d
    /\ cache = EmptyMap
    /\ pc = "idle"
    /\ opts = NoOpts
    /\ import_list = <<>>
    /\ gi = 0
    /\ cands = <<>>
    /\ ci = 0
    /\ response = None
    /\ match = None
    /\ mem = EmptyMap
    /\ lyr = None
    /\ snapshot = d
    /\ outcome = [f \in DOMAIN d |-> Unseen]
    /\ lastLookup = NoLookup
    /\ streak = NoStreak
    /\ fetches = EmptyMap
    /\ runs = 0

Init ==
    /\ \E d \in Directories : InitCli(d)
    /\ mbsearch = <<>>
    /\ mbdata = None

\* the locals of the per-group and per-file code, when none is live
NoGroup == cands' = <<>> /\ ci' = 0 /\ response' = None
NoFile == match' = None /\ mem' = EmptyMap /\ lyr' = None

\* ---------------------------------------------------- the cache commands
\* lines 43-46
clear ==
    /\ AtPrompt
    /\ cache' = EmptyMap
    /\ fetches' = EmptyMap
    /\ UNCHANGED <<disk, pc, opts, import_list, gi, cands, ci, response,
                   match, mem, lyr, snapshot, outcome, lastLookup, streak,
                   runs, server>>

\* lines 48-50
dump ==
    /\ AtPrompt
    /\ UNCHANGED vars

\* --------------------------------------------------------------- update
\* lines 62-64: the path is no directory
UpdateNoDirectory ==
    /\ AtPrompt
    /\ runs < MaxRuns
    /\ runs' = runs + 1
    /\ pc' = "nopath"
    /\ \E o \in Options : opts' = o
    /\ import_list' = <<>>
    /\ gi' = 0
    /\ snapshot' = disk
    /\ outcome' = [f \in Files |-> Unseen]
    /\ NoGroup /\ NoFile
    /\ lastLookup' = NoLookup
    /\ UNCHANGED <<disk, cache, streak, fetches, server>>

\* lines 62-109: the path check passes and the directory is scanned
UpdateScan ==
    /\ AtPrompt
    /\ runs < MaxRuns
    /\ runs' = runs + 1
    /\ \E o \in Options :
         /\ opts' = o
         /\ import_list' = ScanFrom(<<>>, 1, disk, o.force)
    /\ pc' = NextGroup(Len(import_list'), 0).pc
    /\ gi' = NextGroup(Len(import_list'), 0).gi
    /\ snapshot' = disk
    /\ outcome' = [f \in Files |-> Unseen]
    /\ NoGroup /\ NoFile
    /\ lastLookup' = NoLookup
    /\ UNCHANGED <<disk, cache, streak, fetches, server>>

\* History: the files of the group being handled are passed over
Skipped ==
    [f \in Files |->
        IF \E k \in 1..Len(import_list[gi].tracks) : import_list[gi].tracks[k].file = f
        THEN [st |-> "skipped", idx |-> 0]
        ELSE outcome[f]]

\* lines 132-135, data being response["data"]
UseResponse(data) ==
    /\ response' = data
    /\ IF IsNone(data)
       THEN /\ pc' = SkipGroup(Len(import_list), gi).pc
            /\ gi' = SkipGroup(Len(import_list), gi).gi
            /\ outcome' = Skipped
       ELSE /\ pc' = "sort"
            /\ gi' = gi
            /\ outcome' = outcome
    /\ cands' = <<>>
    /\ ci' = 0
    /\ NoFile
    /\ UNCHANGED <<disk, opts, import_list, snapshot, runs, server>>

\* lines 113-119, 132-135: the cache holds a response for the group
ResolveCached ==
    /\ pc = "resolve"
    /\ LET g == import_list[gi]
           cached == find_response(cache, g.artist, g.album)
       IN  /\ ~IsNone(cached)
           /\ ~NeedsRemote(cached)
           /\ cache' = cache
           /\ Recorded(Lookup(g, TRUE, FALSE, "hit", Val(cached).data))
           /\ UseResponse(Val(cached).data)

\* lines 113-126, 132-135: the server answers
ResolveFetched ==
    /\ pc = "resolve"
    /\ LET g == import_list[gi]
           cached == find_response(cache, g.artist, g.album)
       IN  /\ NeedsRemote(cached)
           /\ \E answer \in RemoteAnswers :
                /\ cache' = StoreFetched(cache, g.artist, g.album, answer)
                /\ Recorded(Lookup(g, ~IsNone(cached), TRUE,
                                   IF IsNone(answer.data) THEN "none" ELSE "record",
                                   answer.data))
                /\ UseResponse(answer.data)

\* lines 113-121, 128-130: the request fails
ResolveFetchFailed ==
    /\ pc = "resolve"
    /\ LET g == import_list[gi]
           cached == find_response(cache, g.artist, g.album)
       IN  /\ NeedsRemote(cached)
           /\ cache' = cache
           /\ Recorded(Lookup(g, ~IsNone(cached), TRUE, "fail", None))
           /\ pc' = SkipGroup(Len(import_list), gi).pc
           /\ gi' = SkipGroup(Len(import_list), gi).gi
           /\ outcome' = Skipped
           /\ NoGroup /\ NoFile
           /\ UNCHANGED <<disk, opts, import_list, snapshot, runs, server>>

\* line 138: sorted() raises ValueError on a TRACK tag that int() rejects
SortRaises ==
    /\ pc = "sort"
    /\ \E k \in 1..Len(import_list[gi].tracks) : ~SortKeyOk(import_list[gi].tracks[k])
    /\ pc' = "crashed"
    /\ UNCHANGED <<disk, cache, opts, import_list, gi, cands, ci, response,
                   match, mem, lyr, snapshot, outcome, lookups, runs,
                   server>>

\* line 138
SortTracks ==
    /\ pc = "sort"
    /\ \A k \in 1..Len(import_list[gi].tracks) : SortKeyOk(import_list[gi].tracks[k])
    /\ cands' = SortedTracks(import_list[gi].tracks, Len(import_list[gi].tracks))
    /\ ci' = 1
    /\ pc' = "match"
    /\ UNCHANGED <<disk, cache, opts, import_list, gi, response, match, mem,
                   lyr, snapshot, outcome, lookups, runs, server>>

\* lines 138, 112: on to the next candidate, or the next group, or the end
NextCandidate ==
    IF ci < Len(cands)
    THEN /\ pc' = "match"
         /\ ci' = ci + 1
         /\ UNCHANGED <<gi, cands, response>>
    ELSE /\ pc' = NextGroup(Len(import_list), gi).pc
         /\ gi' = NextGroup(Len(import_list), gi).gi
         /\ NoGroup

\* lines 141-143
MatchNoData ==
    /\ pc = "match"
    /\ ~HasData(cands[ci].title, cands[ci].position)
    /\ outcome' = [outcome EXCEPT ![cands[ci].file] = [st |-> "nodata", idx |-> 0]]
    /\ NextCandidate
    /\ NoFile
    /\ UNCHANGED <<disk, cache, opts, import_list, snapshot, lookups, runs,
                   server>>

\* lines 145-148
MatchNone ==
    /\ pc = "match"
    /\ HasData(cands[ci].title, cands[ci].position)
    /\ FirstMatch(Val(response).tracks, cands[ci].title, cands[ci].position) = 0
    /\ outcome' = [outcome EXCEPT ![cands[ci].file] = [st |-> "nomatch", idx |-> 0]]
    /\ NextCandidate
    /\ NoFile
    /\ UNCHANGED <<disk, cache, opts, import_list, snapshot, lookups, runs,
                   server>>

\* lines 145-159: a record matches; the file is opened, cleared and given the
\* fixed fields and the date fields, in memory
MatchFound ==
    /\ pc = "match"
    /\ HasData(cands[ci].title, cands[ci].position)
    /\ LET r == Val(response)
           at == FirstMatch(r.tracks, cands[ci].title, cands[ci].position)
           file == cands[ci].file
       IN  /\ at # 0
           /\ match' = Some(r.tracks[at])
           /\ mem' = Assembled(disk[file].tags, r, r.tracks[at])
           /\ disk' = StoreAt("open", disk, file, mem')
           /\ outcome' = [outcome EXCEPT ![file] = [st |-> "writing", idx |-> at]]
    /\ lyr' = None
    /\ pc' = StageAfter("open", opts)
    /\ UNCHANGED <<cache, opts, import_list, gi, cands, ci, response,
                   snapshot, lookups, runs, server>>

\* lines 162-167
FetchLyrics ==
    /\ pc = "lyrics"
    /\ \E result \in LyricsAnswers :
         /\ lyr' = result
         /\ mem' = WithLyrics(mem, result)
    /\ disk' = StoreAt("lyrics", disk, cands[ci].file, mem')
    /\ pc' = StageAfter("lyrics", opts)
    /\ UNCHANGED <<cache, opts, import_list, gi, cands, ci, response, match,
                   snapshot, outcome, lookups, runs, server>>

\* line 163: lrclib.get raises
FetchLyricsRaises ==
    /\ pc = "lyrics"
    /\ pc' = "crashed"
    /\ UNCHANGED <<disk, cache, opts, import_list, gi, cands, ci, response,
                   match, mem, lyr, snapshot, outcome, lookups, runs,
                   server>>

\* lines 170-178
ComputeBpm ==
    /\ pc = "bpm"
    /\ \E out \in BpmOutputs : mem' = WithBpm(mem, out)
    /\ disk' = StoreAt("bpm", disk, cands[ci].file, mem')
    /\ pc' = StageAfter("bpm", opts)
    /\ UNCHANGED <<cache, opts, import_list, gi, cands, ci, response, match,
                   lyr, snapshot, outcome, lookups, runs, server>>

\* lines 171-178: ffmpeg or bpm is missing or fails, or prints no number
ComputeBpmRaises ==
    /\ pc = "bpm"
    /\ pc' = "crashed"
    /\ UNCHANGED <<disk, cache, opts, import_list, gi, cands, ci, response,
                   match, mem, lyr, snapshot, outcome, lookups, runs,
                   server>>

\* lines 180-183
SaveFile ==
    /\ pc = "save"
    /\ disk' = StoreAt("save", disk, cands[ci].file, WithMarker(mem))
    /\ outcome' = [outcome EXCEPT ![cands[ci].file].st = "updated"]
    /\ NextCandidate
    /\ NoFile
    /\ UNCHANGED <<cache, opts, import_list, snapshot, lookups, runs,
                   server>>

Next ==
    \/ clear
    \/ dump
    \/ UpdateNoDirectory
    \/ UpdateScan
    \/ ResolveCached
    \/ ResolveFetched
    \/ ResolveFetchFailed
    \/ SortRaises
    \/ SortTracks
    \/ MatchNoData
    \/ MatchNone
    \/ MatchFound
    \/ FetchLyrics
    \/ FetchLyricsRaises
    \/ ComputeBpm
    \/ ComputeBpmRaises
    \/ SaveFile

Spec == Init /\ [][Next]_vars

\* ------------------------------------------- the server on its own
\* the requests the server model answers
InitServer ==
    /\ InitCli(<<NotFlac>>)
    /\ mbsearch \in {<<>>} \cup {<<Release(c)>> : c \in TrackCounts}
    /\ mbdata = None

\* lines 55-65 of app.py
route_api_find ==
    /\ IsNone(mbdata)
    /\ mbdata' = Some(ApiFind(mbsearch))
    /\ UNCHANGED mbsearch
    /\ UNCHANGED cliVars

ServerSpec == InitServer /\ [][route_api_find]_vars

\* ----------------------------------------------------------- properties
\* an update command has scanned the directory
Scanned == pc \notin {"idle", "nopath"}

\* file f is track k of group number i
IsTrack(i, k, f) == import_list[i].tracks[k].file = f

InGroup(i, f) == \E k \in 1..Len(import_list[i].tracks) : IsTrack(i, k, f)

Grouped(f) == \E i \in 1..Len(import_list) : InGroup(i, f)

\* the (artist, album) pair of a file's own tags
HasPair(tags) ==
    ("ALBUMARTIST" \in DOMAIN tags \/ "ARTIST" \in DOMAIN tags) /\ "ALBUM" \in DOMAIN tags

PairOf(tags) ==
    << IF "ALBUMARTIST" \in DOMAIN tags THEN tags["ALBUMARTIST"][1] ELSE tags["ARTIST"][1],
       tags["ALBUM"][1] >>

\* C1: after the scan every file of a group carries, in its own tags, exactly
\* the (artist, album) pair that is the group's key, so two files whose pairs
\* differ in either component are never in one group.
GroupsHoldOneKey ==
    Scanned =>
        \A i \in 1..Len(import_list) : \A f \in Files :
            InGroup(i, f) =>
                /\ HasPair(snapshot[f].tags)
                /\ PairOf(snapshot[f].tags) = <<import_list[i].artist, import_list[i].album>>

\* C2: a lookup that ends with "no match" or with a failed request leaves the
\* cache as it was and the key absent from it, and every lookup of a run of
\* lookups of one key that all ended so asked the server.
MissLeavesCache ==
    (pc = "resolve" /\ lastLookup'.got \in {"none", "fail"}) =>
        /\ cache' = cache
        /\ IsNone(find_response(cache', lastLookup'.key[1], lastLookup'.key[2]))
        /\ lastLookup'.remote

NegativeNeverCached == [](streak.calls = streak.n) /\ [][MissLeavesCache]_vars

\* two lookups of one key in a row found no record, and both asked the server
TwoMissesTwoCalls == streak.n = 2 /\ streak.calls = 2 /\ runs = 2

\* C3: the server is asked exactly when the cache reports the group's key
\* absent; a record it returns is in the cache under that key when matching
\* starts; a hit uses the cached record and leaves the cache alone; so
\* between two clears a key is fetched at most once and the cache holds the
\* record that was fetched.
LookupStep ==
    pc = "resolve" =>
        LET g == import_list[gi]
            look == lastLookup'
        IN  /\ look.key = <<g.artist, g.album>>
            /\ look.remote <=> IsNone(find_response(cache, g.artist, g.album))
            /\ look.got = "record" =>
                   /\ pc' = "sort"
                   /\ ~IsNone(find_response(cache', g.artist, g.album))
                   /\ Val(find_response(cache', g.artist, g.album)).data = response'
                   /\ ~IsNone(response')
            /\ look.got = "hit" =>
                   /\ cache' = cache
                   /\ response' = Val(find_response(cache, g.artist, g.album)).data

OneFetchPerKey ==
    \A k \in DOMAIN fetches :
        /\ Len(fetches[k]) = 1
        /\ ~IsNone(find_response(cache, k[1], k[2]))
        /\ Val(find_response(cache, k[1], k[2])).data = fetches[k]

FetchOnlyOnMiss == []OneFetchPerKey /\ [][LookupStep]_vars

\* a later command found in the cache the record an earlier one had fetched
HitAfterFetch ==
    /\ lastLookup.got = "hit"
    /\ runs = 2
    /\ lastLookup.key \in DOMAIN fetches
    /\ fetches[lastLookup.key] = response

\* the number of tracks on the media before medium number i (1-based)
RECURSIVE TracksBefore(_, _)
TracksBefore(media, i) ==
    IF i <= 1 THEN 0
    ELSE TracksBefore(media, i - 1) + Len(media[i - 1].track_list)

\* C4: track k of medium i (0-based) gets its raw position when i = 0 and
\* its raw position plus the track count of medium i - 1 alone when i > 0;
\* for a release of at most two media that is the cumulative position.
PositionRule ==
    (~IsNone(mbdata) /\ mbsearch # <<>>) =>
        LET media == mbsearch[1].medium_list
            tracks == Val(Val(mbdata).data).tracks
        IN  /\ Len(tracks) = TracksBefore(media, Len(media) + 1)
            /\ \A i \in 1..Len(media) : \A k \in 1..Len(media[i].track_list) :
                   LET raw == IntOf(media[i].track_list[k].position)
                       got == tracks[TracksBefore(media, i) + k]
                   IN  /\ got.disc = i
                       /\ got.position =
                              IF i = 1 THEN raw ELSE raw + media[i - 1].track_count
                       /\ Len(media) <= 2 => got.position = TracksBefore(media, i) + raw

\* three media, the first of ten tracks: track 5 of the second medium is at
\* 15 and track 3 of the first at 3, and the third medium's first track is
\* not at its cumulative position
TenThenFive ==
    /\ ~IsNone(mbdata)
    /\ mbsearch # <<>>
    /\ Len(mbsearch[1].medium_list) = 3
    /\ mbsearch[1].medium_list[1].track_count = 10
    /\ mbsearch[1].medium_list[2].track_count = 5
    /\ Val(Val(mbdata).data).tracks[15].position = 15
    /\ Val(Val(mbdata).data).tracks[15].disc = 2
    /\ Val(Val(mbdata).data).tracks[3].position = 3
    /\ Val(Val(mbdata).data).tracks[16].position = 6

\* C5: a candidate with a title or a position gets the first record of the
\* track list whose title is its title or whose position, as a string, is
\* its raw position; one without either is passed over for want of data, one
\* that no record satisfies for want of a match.
MatchStep ==
    pc = "match" =>
        LET c == cands[ci]
            tracks == Val(response).tracks
            hasTitle == ~IsNone(c.title) /\ Val(c.title) # ""
            hasPosition == ~IsNone(c.position) /\ Val(c.position) # <<>>
            Fits(i) == \/ <<tracks[i].title>> = c.title
                       \/ <<StrOf(tracks[i].position)>> = c.position
        IN  IF ~(hasTitle \/ hasPosition)
            THEN outcome'[c.file].st = "nodata" /\ disk' = disk
            ELSE IF \A i \in 1..Len(tracks) : ~Fits(i)
            THEN outcome'[c.file].st = "nomatch" /\ disk' = disk
            ELSE \E i \in 1..Len(tracks) :
                    /\ Fits(i)
                    /\ \A j \in 1..(i - 1) : ~Fits(j)
                    /\ match' = <<tracks[i]>>
                    /\ outcome'[c.file] = [st |-> "writing", idx |-> i]

FirstSatisfyingRecordWins == [][MatchStep]_vars

\* two files of one group were written from the same record, the second
\* having the title of a later record
TwoFilesOneRecord ==
    \E f1, f2 \in Files :
        /\ f1 # f2
        /\ outcome[f1].st = "updated" /\ outcome[f2].st = "updated"
        /\ outcome[f1].idx = outcome[f2].idx
        /\ snapshot[f1].tags["TITLE"] # snapshot[f2].tags["TITLE"]
        /\ snapshot[f2].tags["TITLE"] = <<"B">>
        /\ disk[f2].tags["TITLE"] = <<"A">>

\* C6: a group whose lookup ends with a failed request or with "not found"
\* has none of its files changed, and the step that finds this goes on to
\* the next group, or to the end of the run after the last group.
SkipStep ==
    (pc = "resolve" /\ lastLookup'.got \in {"none", "fail"}) =>
        /\ disk' = disk
        /\ gi' = gi + 1
        /\ pc' = IF gi < Len(import_list) THEN "resolve" ELSE "done"
        /\ \A f \in Files : InGroup(gi, f) => outcome'[f].st = "skipped"

SkippedUntouched ==
    \A f \in Files : outcome[f].st = "skipped" => disk[f] = snapshot[f]

FailedGroupIsSkipped == []SkippedUntouched /\ [][SkipStep]_vars

\* the first group was skipped and a file of the second was written
WrittenAfterSkip ==
    /\ pc = "done"
    /\ Len(import_list) = 2
    /\ \A f \in Files : InGroup(1, f) => outcome[f].st = "skipped"
    /\ \E f \in Files : InGroup(2, f) /\ outcome[f].st = "updated"

FixedNames ==
    {"DISC", "ALBUM", "TRACK", "TITLE", "ARTIST", "ALBUMARTIST",
     "MUSICBRAINZ_ALBUMID", "MUSICBRAINZ_ALBUMARTISTID"}

\* C7: what the directory holds of a file changes only at the save that ends
\* the file's handling: until then, and for good if the handling fails, the
\* file is as it was when the command started, and once saved it has the
\* fixed fields, the enabled BPM and the marker.
AllOrNothing ==
    \A f \in Files :
        /\ outcome[f].st # "updated" => disk[f] = snapshot[f]
        /\ outcome[f].st = "updated" =>
               /\ FixedNames \cup {"PIZZA"} \subseteq DOMAIN disk[f].tags
               /\ opts.bpm => "BPM" \in DOMAIN disk[f].tags

\* the command failed while a file's new tags were being put together
FailedWhileAssembling ==
    /\ pc = "crashed"
    /\ \E f \in Files :
          /\ outcome[f].st = "writing"
          /\ mem # snapshot[f].tags
          /\ "TITLE" \in DOMAIN mem
          /\ disk[f] = snapshot[f]

\* C8: a written file carries PIZZA; without --force a file that carried
\* PIZZA when the command started is in no group (so in no track count) and
\* is not written; with --force a file is grouped whether it carries PIZZA
\* or not.
MarkerDecidesRerun ==
    \A f \in Files :
        /\ outcome[f].st = "updated" => "PIZZA" \in DOMAIN disk[f].tags
        /\ (Scanned /\ ~opts.force /\ "PIZZA" \in DOMAIN snapshot[f].tags) =>
               /\ ~Grouped(f)
               /\ outcome[f].st = "unseen"
               /\ disk[f] = snapshot[f]
        /\ (Scanned /\ opts.force /\ snapshot[f].kind = "flac"
                /\ HasPair(snapshot[f].tags)) =>
               Grouped(f)

\* a second command, run without --force, has ended and left alone a file
\* that the first command wrote
SecondRunLeftIt ==
    /\ runs = 2
    /\ pc = "done"
    /\ ~opts.force
    /\ \E f \in Files :
          /\ "MUSICBRAINZ_ALBUMID" \in DOMAIN snapshot[f].tags
          /\ outcome[f].st = "unseen"
          /\ disk[f] = snapshot[f]

\* C9: the save leaves the file with exactly the fixed fields and PIZZA,
\* with YEAR and DATE exactly when the record has a date (YEAR being the date
\* up to its first "-"), with LYRICS only when --lyrics is on and a payload
\* came (the synced one unless it is missing or empty, else the plain one),
\* and with BPM exactly when --bpm is on.
SaveStep ==
    pc = "save" =>
        LET f == cands[ci].file
            t == disk'[f].tags
            r == Val(response)
            year == t["YEAR"][1]
            date == Val(r.date)
            payload == Val(lyr)
            Given(name) == name \in DOMAIN payload /\ ~IsNone(payload[name])
            Filled(name) == Given(name) /\ Val(payload[name]) # ""
        IN  /\ DOMAIN t =
                  FixedNames \cup {"PIZZA"}
                  \cup (IF ~IsNone(r.date) THEN {"YEAR", "DATE"} ELSE {})
                  \cup (IF "LYRICS" \in DOMAIN t THEN {"LYRICS"} ELSE {})
                  \cup (IF opts.bpm THEN {"BPM"} ELSE {})
            /\ ~IsNone(r.date) =>
                  /\ t["DATE"] = <<date>>
                  /\ Len(year) <= Len(date)
                  /\ year = SubSeq(date, 1, Len(year))
                  /\ \A i \in 1..Len(year) : year[i] # "-"
                  /\ Len(year) < Len(date) => date[Len(year) + 1] = "-"
            /\ "LYRICS" \in DOMAIN t =>
                  /\ opts.lyrics
                  /\ ~IsNone(lyr)
                  /\ Given("syncedLyrics") \/ Given("plainLyrics")
                  /\ t["LYRICS"] = IF Filled("syncedLyrics")
                                    THEN payload["syncedLyrics"]
                                    ELSE payload["plainLyrics"]
            /\ (opts.lyrics /\ ~IsNone(lyr)
                   /\ (Filled("syncedLyrics") \/ Given("plainLyrics"))) =>
                  "LYRICS" \in DOMAIN t

WrittenTagsAreExact == [][SaveStep]_vars

\* a file that had LYRICS, BPM and PIZZA was written with both options off,
\* from a record with a date
OldTagsGone ==
    \E f \in Files :
        /\ outcome[f].st = "updated"
        /\ ~opts.lyrics /\ ~opts.bpm
        /\ {"LYRICS", "BPM"} \subseteq DOMAIN snapshot[f].tags
        /\ "LYRICS" \notin DOMAIN disk[f].tags
        /\ "BPM" \notin DOMAIN disk[f].tags
        /\ disk[f].tags["YEAR"] = <<<<"2", "0", "2", "4">>>>

\* C10: once the path check has passed, no tag value and no failure of the
\* lyrics lookup or of the bpm program ends the command before it has gone
\* through every group and file.
RunReachesEnd == pc # "crashed"

====
